---- MODULE Spec2Model ----
(***************************************************************************)
(* A model of feedbax's staged network (src/feedbax/nn.py):                *)
(* PopulationStructure, MaskedLinear and SimpleStagedNetwork.              *)
(*                                                                         *)
(* Arrays are sequences (1-based here, 0-based in the source: the VALUES   *)
(* held in index arrays are the source's 0-based unit indices).  Matrices  *)
(* are sequences of rows.  Numbers are integers: every operation the       *)
(* model uses (sum, product, mask multiplication) is exact on them.        *)
(***************************************************************************)
EXTENDS Integers, Sequences, FiniteSets, TLC

VARIABLES
    ps_pc,      \* PopulationStructure.create: "idle", "returned" or "raised"
    ps_args,    \* the arguments of the last call of create
    ps,         \* the PopulationStructure returned by the last call, or None
    ml,         \* a MaskedLinear instance (linear.weight, linear.bias, mask), or None
    ml_x,       \* the input of the last forward call of ml, or None
    ml_out,     \* the result of the last forward call of ml, or None
    ml_mask,    \* the mask the constructor of ml was given, or None
    network,    \* a SimpleStagedNetwork, or None before construction
    net_state,  \* the NetworkState the caller holds, or None before init
    net_last,   \* the last step: its raw input, the state after each stage and
                \* whether it raised; None before the first step
    leaky,      \* a LeakyRNNCell on its own, or None before construction
    leaky_last, \* the last call of leaky as it is now: its input and state,
                \* whether it raised and the state it returned; None before
    loss_pc,    \* CompositeLoss.__init__: "idle", "returned" or "raised"
    loss_args,  \* the arguments of the construction, or None
    loss        \* the CompositeLoss constructed, or None

popVars == <<ps_pc, ps_args, ps>>
mlVars == <<ml, ml_x, ml_out, ml_mask>>
netVars == <<network, net_state, net_last>>
cellVars == <<leaky, leaky_last>>
lossVars == <<loss_pc, loss_args, loss>>
vars == <<popVars, mlVars, netVars, cellVars, lossVars>>

\* Optional values: None, or Some(v) holding v.
None == <<>>
Some(v) == <<v>>
Get(o) == o[1]

(***************************************************************************)
(* Bounds                                                                  *)
(***************************************************************************)
MaxHidden == 2          \* hidden_size ranges over 0..MaxHidden
MaxIn == 2              \* in_features of a MaskedLinear ranges over 1..MaxIn
MaxOut == 1             \* out_features of a MaskedLinear ranges over 1..MaxOut
InputSize == 1          \* input_size of the networks built
OutSize == 1            \* out_size of the networks built with a readout
EncodingSize == 1       \* encoding_size of the networks built with an encoder
MaxTerms == 2           \* a CompositeLoss is given at most MaxTerms terms
MaxAct == 2             \* steps are followed while activities stay in -MaxAct..MaxAct

\* The numbers tensors are filled with.
UpdateVals == {-1, 2}   \* what a parameter update may write into a weight
InputVals == {0, 1}     \* entries of an input vector

(***************************************************************************)
(* Array helpers                                                           *)
(***************************************************************************)
Range(s) == {s[i] : i \in DOMAIN s}

\* jnp.arange(lo, hi): lo, lo+1, .., hi-1; empty when hi <= lo
arange(lo, hi) == [i \in 1..(IF hi > lo THEN hi - lo ELSE 0) |-> lo + i - 1]

\* s[lo:hi] with Python's treatment of negative and out-of-range bounds
PySlice(s, lo, hi) ==
    LET n == Len(s)
        norm(i) == IF i < 0 THEN (IF i + n < 0 THEN 0 ELSE i + n)
                   ELSE (IF i > n THEN n ELSE i)
        a == norm(lo)
        b == norm(hi)
    IN  IF b <= a THEN <<>> ELSE SubSeq(s, a + 1, b)

\* s[lo:]
PySliceFrom(s, lo) == PySlice(s, lo, Len(s))

\* (a slip: the second array is left out)
concatenate_first_only(s, t) == s

\* jnp.concatenate([s, t])
concatenate(s, t) == s \o t

\* vectors of length n and matrices of shape (rows, cols) over a set of numbers
Vectors(n, vals) == [1..n -> vals]
Matrices(rows, cols, vals) == [1..rows -> [1..cols -> vals]]

\* jnp.zeros((rows, cols)), jnp.ones((rows, cols)), jnp.zeros(n)
zeros2(rows, cols) == [i \in 1..rows |-> [j \in 1..cols |-> 0]]
ones2(rows, cols) == [i \in 1..rows |-> [j \in 1..cols |-> 1]]
zeros(n) == [i \in 1..n |-> 0]

\* a * b elementwise, for matrices of one shape
Hadamard(a, b) == [i \in DOMAIN a |-> [j \in DOMAIN a[i] |-> a[i][j] * b[i][j]]]

RECURSIVE SumSeq(_)
SumSeq(s) == IF s = <<>> THEN 0 ELSE s[1] + SumSeq(Tail(s))

\* jnp.dot(w, x) for a matrix w and a vector x (also jnp.dot(x, w.T))
MatVec(w, x) == [i \in DOMAIN w |-> SumSeq([j \in DOMAIN x |-> w[i][j] * x[j]])]

\* a + b elementwise, for vectors of one length
VecAdd(a, b) == [i \in DOMAIN a |-> a[i] + b[i]]

\* jr.permutation(key, n) over all keys: the orderings of 0..n-1
permutation(n) ==
    {p \in [1..n -> 0..(n - 1)] : \A i, j \in 1..n : p[i] = p[j] => i = j}

(***************************************************************************)
(* PopulationStructure                                                     *)
(***************************************************************************)
\* An assignment returns the four index arrays in this order.
Assignment(io, ro, rec, ir) ==
    [input_only_indices |-> io, readout_only_indices |-> ro,
     recurrent_only_indices |-> rec, input_readout_indices |-> ir]

\* (a slip: the input-readout block is laid out before the recurrent-only one)
contiguous_assignment_blocks_swapped(hidden_size, n_input_only, n_readout_only, n_recurrent_only, n_input_readout) ==
    Assignment(
        arange(0, n_input_only),
        arange(n_input_only, n_input_only + n_readout_only),
        arange(n_input_only + n_readout_only + n_input_readout, hidden_size),
        arange(n_input_only + n_readout_only,
               n_input_only + n_readout_only + n_input_readout))

\* contiguous_assignment(hidden_size, ..., key): the key is unused
contiguous_assignment(hidden_size, n_input_only, n_readout_only, n_recurrent_only, n_input_readout) ==
    Assignment(
        arange(0, n_input_only),
        arange(n_input_only, n_input_only + n_readout_only),
        arange(n_input_only + n_readout_only,
               n_input_only + n_readout_only + n_recurrent_only),
        arange(n_input_only + n_readout_only + n_recurrent_only, hidden_size))

\* (a slip: the last slice forgets n_recurrent_only)
random_assignment_overlap(all_indices, n_input_only, n_readout_only, n_recurrent_only) ==
    Assignment(
        PySlice(all_indices, 0, n_input_only),
        PySlice(all_indices, n_input_only, n_input_only + n_readout_only),
        PySlice(all_indices, n_input_only + n_readout_only,
                n_input_only + n_readout_only + n_recurrent_only),
        PySliceFrom(all_indices, n_input_only + n_readout_only))

\* the default assignment: slices of a permutation all_indices of 0..hidden_size-1
random_assignment(all_indices, n_input_only, n_readout_only, n_recurrent_only) ==
    Assignment(
        PySlice(all_indices, 0, n_input_only),
        PySlice(all_indices, n_input_only, n_input_only + n_readout_only),
        PySlice(all_indices, n_input_only + n_readout_only,
                n_input_only + n_readout_only + n_recurrent_only),
        PySliceFrom(all_indices, n_input_only + n_readout_only + n_recurrent_only))

\* (a slip: only too large a sum is refused)
SizesMismatch_too_large(hidden_size, n_input_only, n_readout_only, n_recurrent_only, n_input_readout) ==
    n_input_only + n_readout_only + n_recurrent_only + n_input_readout
        > hidden_size

\* the guard of create: the sizes must sum to hidden_size
SizesMismatch(hidden_size, n_input_only, n_readout_only, n_recurrent_only, n_input_readout) ==
    n_input_only + n_readout_only + n_recurrent_only + n_input_readout
        # hidden_size

\* cls(...): the structure built from the sizes and an assignment
PopulationStructure(n_input_only, n_readout_only, n_recurrent_only, n_input_readout, asg) ==
    [n_input_only |-> n_input_only,
     n_readout_only |-> n_readout_only,
     n_recurrent_only |-> n_recurrent_only,
     n_input_readout |-> n_input_readout,
     input_indices |->
        concatenate(asg.input_only_indices, asg.input_readout_indices),
     readout_indices |->
        concatenate(asg.readout_only_indices, asg.input_readout_indices),
     input_only_indices |-> asg.input_only_indices,
     readout_only_indices |-> asg.readout_only_indices,
     recurrent_only_indices |-> asg.recurrent_only_indices,
     input_readout_indices |-> asg.input_readout_indices]

\* The values a call of create may be given.
HiddenSizes == 0..MaxHidden
PopSizes == (-1)..MaxHidden
AssignmentFns == {"random", "contiguous", "custom"}
\* what a custom assignment_fn may return for one population: the empty array
\* or one index, in range (0..hidden_size-1) or not (hidden_size)
CustomArrays(hidden_size) == {<<>>} \cup {<<i>> : i \in 0..hidden_size}

PopArgs(hidden_size, a, b, c, d, fn) ==
    [hidden_size |-> hidden_size, n_input_only |-> a, n_readout_only |-> b,
     n_recurrent_only |-> c, n_input_readout |-> d, assignment_fn |-> fn]

\* create raises ValueError and returns nothing
CreateRaises(hidden_size, a, b, c, d, fn) ==
    /\ SizesMismatch(hidden_size, a, b, c, d)
    /\ ps_pc' = "raised"
    /\ ps_args' = Some(PopArgs(hidden_size, a, b, c, d, fn))
    /\ ps' = None

\* create returns the structure built from the assignment asg
CreateReturns(hidden_size, a, b, c, d, fn, asg) ==
    /\ ~SizesMismatch(hidden_size, a, b, c, d)
    /\ ps_pc' = "returned"
    /\ ps_args' = Some(PopArgs(hidden_size, a, b, c, d, fn))
    /\ ps' = Some(PopulationStructure(a, b, c, d, asg))

create(hidden_size, a, b, c, d, fn) ==
    \/ CreateRaises(hidden_size, a, b, c, d, fn)
    \/ /\ fn = "random"
       /\ \E all_indices \in permutation(hidden_size) :
            CreateReturns(hidden_size, a, b, c, d, fn,
                          random_assignment(all_indices, a, b, c))
    \/ /\ fn = "contiguous"
       /\ CreateReturns(hidden_size, a, b, c, d, fn,
                        contiguous_assignment(hidden_size, a, b, c, d))
    \/ /\ fn = "custom"
       /\ \E io, ro, rec, ir \in CustomArrays(hidden_size) :
            CreateReturns(hidden_size, a, b, c, d, fn,
                          Assignment(io, ro, rec, ir))

\* One call of create per behaviour: the class method is a pure function of
\* its arguments (and of the key, through the permutation).
Create ==
    /\ ps_pc = "idle"
    /\ \E hidden_size \in HiddenSizes, a, b, c, d \in PopSizes,
          fn \in AssignmentFns :
            create(hidden_size, a, b, c, d, fn)
    /\ UNCHANGED <<mlVars, netVars, cellVars, lossVars>>

\* The call of the worked example: six hidden units, two input-only, two
\* readout-only, one recurrent-only, one input-readout, laid out contiguously.
ScenarioArgs == PopArgs(6, 2, 2, 1, 1, "contiguous")

CreateScenario ==
    /\ ps_pc = "idle"
    /\ create(6, 2, 2, 1, 1, "contiguous")
    /\ UNCHANGED <<mlVars, netVars, cellVars, lossVars>>

(***************************************************************************)
(* MaskedLinear                                                            *)
(***************************************************************************)
\* eqx.nn.Linear(in_features, out_features, use_bias, key): w0 and b0 are the
\* weight and bias its initialiser draws from the key
Linear(w0, b0, use_bias) ==
    [cls |-> "Linear", weight |-> w0, bias |-> IF use_bias THEN Some(b0) ELSE None]

\* MaskedLinear.__init__: the initial weight is multiplied by the mask once
MaskedLinear(mask, w0, b0, use_bias) ==
    [cls |-> "MaskedLinear",
     linear |-> [Linear(w0, b0, use_bias) EXCEPT !.weight = Hadamard(w0, mask)],
     mask |-> mask]

\* (a slip: the forward pass uses the raw weight)
masked_weight_raw(layer) == layer.linear.weight

\* the weight a forward call uses
masked_weight(layer) == Hadamard(layer.linear.weight, layer.mask)

\* MaskedLinear.__call__
MaskedLinear_call(layer, x) ==
    LET result == MatVec(masked_weight(layer), x)
    IN  IF layer.linear.bias # None
        THEN VecAdd(result, Get(layer.linear.bias))
        ELSE result

\* eqx.tree_at(lambda l: l.linear.weight, layer, w): what a parameter update does
\* (a slip: the layer is rebuilt around the new weight with an open mask)
replace_weight_mask_reset(layer, w) ==
    [layer EXCEPT !.linear.weight = w,
                  !.mask = [i \in DOMAIN w |-> [j \in DOMAIN w[i] |-> 1]]]

replace_weight(layer, w) == [layer EXCEPT !.linear.weight = w]

(***************************************************************************)
(* Random keys.  Every jr.* draw is a function of its key; a key is an      *)
(* integer here and the drawn numbers are -1 or 1 (never 0: a drawn weight  *)
(* is not accidentally a structural zero).                                  *)
(***************************************************************************)
Keys == {1, 2}

\* jr.split(key, n)[i - 1]
split(key, i) == 3 * key + i

Draw(key, i, j) == IF (key + i + j) % 2 = 0 THEN 1 ELSE -1

\* jr.uniform(key, (rows, cols), ...) and jr.uniform(key, (n,), ...)
uniform2(key, rows, cols) == [i \in 1..rows |-> [j \in 1..cols |-> Draw(key, i, j)]]
uniform1(key, n) == [i \in 1..n |-> Draw(key, i, 0)]

\* jr.normal(key, (n,)): -1, 0 or 1
normal(key, n) == [i \in 1..n |-> ((key + i) % 3) - 1]

\* hasattr(obj, name), for the objects that are records here
hasattr(obj, name) == name \in DOMAIN obj

(***************************************************************************)
(* Layers a SimpleStagedNetwork is built from                               *)
(***************************************************************************)
\* eqx.nn.Linear(in_features, out_features, use_bias, key=key)
nn_Linear(in_features, out_features, use_bias, key) ==
    Linear(uniform2(split(key, 1), out_features, in_features),
           uniform1(split(key, 2), out_features), use_bias)

\* MaskedLinear(in_features, out_features, mask, use_bias, key=key)
nn_MaskedLinear(in_features, out_features, mask, use_bias, key) ==
    MaskedLinear(mask, uniform2(split(key, 1), out_features, in_features),
                 uniform1(split(key, 2), out_features), use_bias)

\* eqx.nn.GRUCell(input_size, hidden_size, use_bias, key=key): the three gates'
\* weights are stacked row-wise (reset, update, candidate)
GRUCell(input_size, hidden_size, use_bias, key) ==
    [cls |-> "GRUCell",
     weight_ih |-> uniform2(split(key, 1), 3 * hidden_size, input_size),
     weight_hh |-> uniform2(split(key, 2), 3 * hidden_size, hidden_size),
     bias |-> IF use_bias THEN Some(uniform1(split(key, 3), 3 * hidden_size)) ELSE None,
     bias_n |-> IF use_bias THEN Some(uniform1(split(key, 4), hidden_size)) ELSE None]

\* LeakyRNNCell.__init__.  With input_size = 0 weight_ih is jnp.array(0), an
\* array of no dimension: it has no rows here.  noise_strength is counted in
\* hundredths (the default is 0.01).
LeakyRNNCell_init(input_size, hidden_size, use_bias, use_noise, noise_strength, dt, tau, nonlinearity, key) ==
    [cls |-> "LeakyRNNCell",
     weight_ih |-> IF input_size > 0
                   THEN uniform2(split(key, 1), hidden_size, input_size)
                   ELSE <<>>,
     weight_hh |-> uniform2(split(key, 2), hidden_size, hidden_size),
     bias |-> IF use_bias THEN Some(uniform1(split(key, 3), hidden_size)) ELSE None,
     input_size |-> input_size,
     hidden_size |-> hidden_size,
     use_bias |-> use_bias,
     use_noise |-> use_noise,
     noise_strength |-> noise_strength,
     dt |-> dt,
     tau |-> tau,
     nonlinearity |-> nonlinearity]

\* LeakyRNNCell.__init__ with its defaults (no noise, dt = tau = 1, tanh)
LeakyRNNCell(input_size, hidden_size, use_bias, key) ==
    LeakyRNNCell_init(input_size, hidden_size, use_bias, FALSE, 1, 1, 1, "tanh", key)

\* a MaskedLinear on its own: built, its weight replaced, called
MLConstruct ==
    /\ ml = None
    /\ \E in_features \in 1..MaxIn, out_features \in 1..MaxOut, use_bias \in BOOLEAN :
        \E mask \in Matrices(out_features, in_features, {0, 1}), key \in Keys :
            /\ ml' = Some(nn_MaskedLinear(in_features, out_features, mask, use_bias, key))
            /\ ml_mask' = Some(mask)
    /\ UNCHANGED <<ml_x, ml_out, popVars, netVars, cellVars, lossVars>>

\* a forward call leaves the layer as it is, so the replacements are all
\* followed before the first call
MLReplaceWeight ==
    /\ ml # None
    /\ ml_out = None
    /\ \E w \in Matrices(Len(Get(ml).mask), Len(Get(ml).mask[1]), UpdateVals) :
            ml' = Some(replace_weight(Get(ml), w))
    /\ UNCHANGED <<ml_x, ml_out, ml_mask, popVars, netVars, cellVars, lossVars>>

MLCall ==
    /\ ml # None
    /\ \E x \in Vectors(Len(Get(ml).mask[1]), InputVals) :
            /\ ml_x' = Some(x)
            /\ ml_out' = Some(MaskedLinear_call(Get(ml), x))
    /\ UNCHANGED <<ml, ml_mask, popVars, netVars, cellVars, lossVars>>

MLInit ==
    /\ ml = None
    /\ ml_x = None
    /\ ml_out = None
    /\ ml_mask = None

HiddenTypes == {"GRUCell", "LeakyRNNCell", "Linear"}

\* hidden_type(input_size, hidden_size, use_bias=use_bias, key=key)
hidden_type_call(hidden_type, input_size, hidden_size, use_bias, key) ==
    CASE hidden_type = "GRUCell" -> GRUCell(input_size, hidden_size, use_bias, key)
      [] hidden_type = "LeakyRNNCell" -> LeakyRNNCell(input_size, hidden_size, use_bias, key)
      [] hidden_type = "Linear" -> nn_Linear(input_size, hidden_size, use_bias, key)

(***************************************************************************)
(* SimpleStagedNetwork.__init__                                             *)
(***************************************************************************)
\* jnp.zeros((rows, cols)).at[indices, :].set(1.0): a negative index counts
\* from the end
rows_set(rows, cols, indices) ==
    [i \in 1..rows |-> [j \in 1..cols |->
        IF \E k \in Range(indices) : k = i - 1 \/ k + rows = i - 1 THEN 1 ELSE 0]]

\* jnp.zeros((rows, cols)).at[:, indices].set(1.0)
cols_set(rows, cols, indices) ==
    [i \in 1..rows |-> [j \in 1..cols |->
        IF \E k \in Range(indices) : k = j - 1 \/ k + cols = j - 1 THEN 1 ELSE 0]]

\* (a slip: the mask is padded to three blocks with open rows, not tiled)
tile3_padded(m) ==
    [i \in 1..(3 * Len(m)) |->
        IF i <= Len(m) THEN m[i] ELSE [j \in DOMAIN m[1] |-> 1]]

\* jnp.tile(m, (3, 1))
tile3(m) == [i \in 1..(3 * Len(m)) |-> m[((i - 1) % Len(m)) + 1]]

\* the mask of the hidden layer's input weights
hidden_input_mask(weight_ih, hidden_size, in_size, input_indices) ==
    IF Len(weight_ih) = 3 * hidden_size
    THEN tile3(rows_set(hidden_size, in_size, input_indices))
    ELSE rows_set(hidden_size, in_size, input_indices)

\* the hidden layer, its input weights masked once when a population
\* structure is given and the layer has a weight_ih
make_hidden(hidden_type, in_size, hidden_size, use_bias, population_structure, key1) ==
    LET hidden == hidden_type_call(hidden_type, in_size, hidden_size, use_bias, key1)
    IN  IF population_structure # None /\ hasattr(hidden, "weight_ih")
        THEN [hidden EXCEPT !.weight_ih =
                Hadamard(hidden.weight_ih,
                         hidden_input_mask(hidden.weight_ih, hidden_size, in_size,
                                           Get(population_structure).input_indices))]
        ELSE hidden

\* the encoder: a MaskedLinear with an all-ones mask under a population
\* structure, else encoder_type(input_size, encoding_size, key=key2)
make_encoder(input_size, encoding_size, use_bias, population_structure, key2) ==
    IF population_structure # None
    THEN nn_MaskedLinear(input_size, encoding_size, ones2(encoding_size, input_size),
                         use_bias, key2)
    ELSE nn_Linear(input_size, encoding_size, TRUE, key2)

\* (a slip: the rows at readout_indices are opened, not the columns)
readout_mask_rows(out_size, hidden_size, readout_indices) ==
    rows_set(out_size, hidden_size, readout_indices)

\* the readout mask: the columns of the readout units are open
readout_mask(out_size, hidden_size, readout_indices) ==
    cols_set(out_size, hidden_size, readout_indices)

\* getattr(readout, "bias", None)
getattr_bias(readout) == IF hasattr(readout, "bias") THEN readout.bias ELSE None

\* the readout layer with its bias zeroed where getattr finds one
make_readout(hidden_size, out_size, use_bias, population_structure, key3) ==
    LET readout ==
            IF population_structure # None
            THEN nn_MaskedLinear(hidden_size, out_size,
                    readout_mask(out_size, hidden_size,
                                 Get(population_structure).readout_indices),
                    use_bias, key3)
            ELSE nn_Linear(hidden_size, out_size, TRUE, key3)
        bias == getattr_bias(readout)
    IN  IF bias # None
        THEN IF readout.cls = "MaskedLinear"
             THEN [readout EXCEPT !.linear.bias = Some(zeros(Len(Get(bias))))]
             ELSE [readout EXCEPT !.bias = Some(zeros(Len(Get(bias))))]
        ELSE readout

\* SimpleStagedNetwork.__init__ up to the assignment of self.intervenors.  cfg
\* holds the arguments; a field of the result that is None is either assigned
\* None or, for out_nonlinearity, never assigned.
SimpleStagedNetwork_layers(cfg) ==
    LET key1 == split(cfg.key, 1)
        key2 == split(cfg.key, 2)
        key3 == split(cfg.key, 3)
        in_size == IF cfg.encoding_size # None THEN Get(cfg.encoding_size)
                   ELSE cfg.input_size
    IN  [input_size |-> cfg.input_size,
         population_structure |-> cfg.population_structure,
         encoder |-> IF cfg.encoding_size # None
                     THEN Some(make_encoder(cfg.input_size, Get(cfg.encoding_size),
                                cfg.use_bias, cfg.population_structure, key2))
                     ELSE None,
         encoding_size |-> cfg.encoding_size,
         hidden |-> make_hidden(cfg.hidden_type, in_size, cfg.hidden_size,
                                cfg.use_bias, cfg.population_structure, key1),
         hidden_size |-> cfg.hidden_size,
         hidden_nonlinearity |-> cfg.hidden_nonlinearity,
         hidden_noise_std |-> cfg.hidden_noise_std,
         readout |-> IF cfg.out_size # None
                     THEN Some(make_readout(cfg.hidden_size, Get(cfg.out_size),
                                cfg.use_bias, cfg.population_structure, key3))
                     ELSE None,
         out_nonlinearity |-> IF cfg.out_size # None
                              THEN Some(cfg.out_nonlinearity) ELSE None,
         out_size |-> IF cfg.out_size # None THEN cfg.out_size
                      ELSE Some(cfg.hidden_size)]

(***************************************************************************)
(* SimpleStagedNetwork.model_spec and init                                  *)
(***************************************************************************)
Stage(label, callable, where_input, where_state) ==
    [label |-> label, callable |-> callable,
     where_input |-> where_input, where_state |-> where_state]

Labels(spec) == [i \in DOMAIN spec |-> spec[i].label]

\* spec |= {label: stage}: an OrderedDict keeps the place of a label it
\* already holds and appends a new one
ior(spec, stage) ==
    IF \E i \in DOMAIN spec : spec[i].label = stage.label
    THEN [i \in DOMAIN spec |-> IF spec[i].label = stage.label THEN stage ELSE spec[i]]
    ELSE Append(spec, stage)

\* feedbax.misc.n_positional_args of the hidden layer's __call__:
\* Linear (x), GRUCell (input, hidden), LeakyRNNCell (input, state, key)
n_positional_args(layer) ==
    CASE layer.cls = "Linear" -> 1
      [] layer.cls = "MaskedLinear" -> 1
      [] layer.cls = "GRUCell" -> 2
      [] layer.cls = "LeakyRNNCell" -> 3

\* how the hidden stage calls the hidden layer
hidden_module(net) ==
    IF n_positional_args(net.hidden) = 1
    THEN "wrap_stateless_callable(hidden)"
    ELSE "hidden"

input_stage ==
    Stage("input", "input", "ravel_pytree(input)", "input")

\* the hidden stage of a network without encoder
hidden_stage_without_encoder(net) ==
    Stage("hidden", hidden_module(net), "state.input", "hidden")

\* (a slip: the readout stage is placed before the hidden noise)
optional_stages_readout_first(net) ==
    (IF net.readout # None
     THEN <<Stage("readout", "wrap_stateless_callable(readout)", "state.hidden", "output")>>
     ELSE <<>>)
    \o (IF net.hidden_noise_std # None
        THEN <<Stage("hidden_noise", "_add_hidden_noise", "state.hidden", "hidden")>>
        ELSE <<>>)

\* (a slip: the noise stage is tested by truth value, so a level of 0 drops it)
optional_stages_noise_truthy(net) ==
    (IF net.hidden_noise_std # None /\ net.hidden_noise_std # Some(0)
     THEN <<Stage("hidden_noise", "_add_hidden_noise", "state.hidden", "hidden")>>
     ELSE <<>>)
    \o (IF net.readout # None
        THEN <<Stage("readout", "wrap_stateless_callable(readout)", "state.hidden", "output")>>
        ELSE <<>>)

\* (a slip: the readout stage writes its result into state.hidden)
optional_stages_readout_to_hidden(net) ==
    (IF net.hidden_noise_std # None
     THEN <<Stage("hidden_noise", "_add_hidden_noise", "state.hidden", "hidden")>>
     ELSE <<>>)
    \o (IF net.readout # None
        THEN <<Stage("readout", "wrap_stateless_callable(readout)", "state.hidden", "hidden")>>
        ELSE <<>>)

\* the stages between hidden_nonlinearity and out_nonlinearity
optional_stages(net) ==
    (IF net.hidden_noise_std # None
     THEN <<Stage("hidden_noise", "_add_hidden_noise", "state.hidden", "hidden")>>
     ELSE <<>>)
    \o (IF net.readout # None
        THEN <<Stage("readout", "wrap_stateless_callable(readout)", "state.hidden", "output")>>
        ELSE <<>>)

RECURSIVE ior_all(_, _)
ior_all(spec, stages) ==
    IF stages = <<>> THEN spec ELSE ior_all(ior(spec, Head(stages)), Tail(stages))

model_spec(net) ==
    LET spec0 == <<input_stage>>
        \* with an encoder the dictionary is assigned anew, not updated
        spec1 == IF net.encoder = None
                 THEN ior(spec0, hidden_stage_without_encoder(net))
                 ELSE <<Stage("encoder", "encoder", "state.input", "encoding"),
                        Stage("hidden", hidden_module(net), "state.encoding", "hidden")>>
        spec2 == ior(spec1, Stage("hidden_nonlinearity",
                                  "wrap_stateless_keyless_callable(hidden_nonlinearity)",
                                  "state.hidden", "hidden"))
        spec3 == ior_all(spec2, optional_stages(net))
    IN  ior(spec3, Stage("out_nonlinearity",
                         "wrap_stateless_keyless_callable(out_nonlinearity)",
                         "state.output", "output"))

\* self._get_intervenors_dict(intervenors): a list of hooks for every stage
\* label of model_spec, empty unless the argument registers hooks for it
get_intervenors_dict(net, intervenors) ==
    [label \in Range(Labels(model_spec(net))) |->
        IF intervenors # None /\ label \in DOMAIN Get(intervenors)
        THEN Get(intervenors)[label]
        ELSE <<>>]

\* SimpleStagedNetwork.__init__
SimpleStagedNetwork(cfg) ==
    LET net == SimpleStagedNetwork_layers(cfg)
    IN  net @@ [intervenors |-> get_intervenors_dict(net, cfg.intervenors)]

NetworkState(input, hidden, output, encoding) ==
    [input |-> input, hidden |-> hidden, output |-> output, encoding |-> encoding]

\* the output field of the initial state
init_output(net) ==
    IF net.out_size = None THEN None ELSE Some(zeros(Get(net.out_size)))

\* the encoding field of the initial state
init_encoding(net) ==
    IF net.encoding_size = None THEN None
    ELSE Some(zeros(Get(net.encoding_size)))

init(net) ==
    NetworkState(zeros(net.input_size), zeros(net.hidden_size),
                 init_output(net), init_encoding(net))

(***************************************************************************)
(* Forward passes of the layers                                            *)
(***************************************************************************)
Max(a, b) == IF a > b THEN a ELSE b
Min(a, b) == IF a < b THEN a ELSE b

\* tanh and sigmoid on integers: their saturated values
tanh(z) == Max(-1, Min(1, z))
sigmoid(z) == IF z > 0 THEN 1 ELSE 0

Nonlinearities == {"identity_func", "relu"}

\* f applied to every element of v
elementwise(f, v) ==
    [i \in DOMAIN v |->
        CASE f = "identity_func" -> v[i]
          [] f = "relu" -> Max(v[i], 0)
          [] f = "tanh" -> tanh(v[i])]

\* eqx.nn.Linear.__call__
Linear_call(layer, x) ==
    LET result == MatVec(layer.weight, x)
    IN  IF layer.bias # None THEN VecAdd(result, Get(layer.bias)) ELSE result

\* layer(x) for a layer of one positional argument
layer_call(layer, x) ==
    IF layer.cls = "MaskedLinear" THEN MaskedLinear_call(layer, x)
    ELSE Linear_call(layer, x)

\* the input's contribution to the hidden layer's pre-activation
input_drive(hidden, x) ==
    IF hasattr(hidden, "weight_ih") THEN MatVec(hidden.weight_ih, x)
    ELSE MatVec(hidden.weight, x)

\* eqx.nn.GRUCell.__call__(input, hidden)
GRUCell_call(cell, input, hidden) ==
    LET n == Len(hidden)
        wi == MatVec(cell.weight_ih, input)
        lin == IF cell.bias # None THEN VecAdd(wi, Get(cell.bias)) ELSE wi
        hg == MatVec(cell.weight_hh, hidden)
        bias_n == IF cell.bias_n # None THEN Get(cell.bias_n) ELSE zeros(n)
        reset == [i \in 1..n |-> sigmoid(lin[i] + hg[i])]
        inp == [i \in 1..n |-> sigmoid(lin[n + i] + hg[n + i])]
        new == [i \in 1..n |->
                    tanh(lin[2 * n + i] + reset[i] * (hg[2 * n + i] + bias_n[i]))]
    IN  [i \in 1..n |-> new[i] + inp[i] * (hidden[i] - new[i])]

\* jnp.dot(w, x): with an operand of no dimension the product is elementwise,
\* here 0 times every entry of x
jnp_dot(w, x) == IF w = <<>> THEN [i \in DOMAIN x |-> 0] ELSE MatVec(w, x)

\* numpy broadcasting of two one-dimensional arrays: equal lengths, or one
\* of them of length 1 (which is stretched, also to length 0)
broadcastable(a, b) == Len(a) = Len(b) \/ Len(a) = 1 \/ Len(b) = 1
broadcast_add(a, b) ==
    LET n == IF Len(a) = 1 THEN Len(b) ELSE Len(a)
        at(v, i) == IF Len(v) = 1 THEN v[1] ELSE v[i]
    IN  [i \in 1..n |-> at(a, i) + at(b, i)]

\* (a slip: dt * tau in place of dt / tau)
alpha_product(rnn) == rnn.dt * rnn.tau

\* LeakyRNNCell.alpha: dt / tau (the cells built have tau dividing dt)
alpha(rnn) == rnn.dt \div rnn.tau

\* LeakyRNNCell.noise_std is a cached property whose function takes a second
\* parameter, noise_strength: reading self.noise_std calls it with self alone
\* and raises TypeError
noise_std_raises(rnn) == TRUE

\* LeakyRNNCell.__call__ raises: the noise branch reads self.noise_std, or the
\* input term and the recurrent term do not broadcast
LeakyRNNCell_call_raises(rnn, input, state) ==
    \/ rnn.use_noise /\ noise_std_raises(rnn)
    \/ ~broadcastable(jnp_dot(rnn.weight_ih, input), jnp_dot(rnn.weight_hh, state))

\* LeakyRNNCell.__call__(input, state, key) when it does not raise: bias is
\* self.bias or 0, noise is 0
LeakyRNNCell_call(rnn, input, state, key) ==
    LET bias == IF rnn.use_bias THEN Get(rnn.bias) ELSE <<0>>
        pre == broadcast_add(broadcast_add(jnp_dot(rnn.weight_ih, input),
                                           jnp_dot(rnn.weight_hh, state)), bias)
        act == elementwise(rnn.nonlinearity, pre)
    IN  broadcast_add([i \in DOMAIN state |-> (1 - alpha(rnn)) * state[i]],
                      [i \in DOMAIN act |-> alpha(rnn) * act[i]])

\* (a slip: the noise is added without the factor hidden_noise_std)
add_hidden_noise_unscaled(net, input, state, key) ==
    IF net.hidden_noise_std = None THEN state
    ELSE VecAdd(state, normal(key, Len(state)))

\* SimpleStagedNetwork._add_hidden_noise
add_hidden_noise(net, input, state, key) ==
    IF net.hidden_noise_std = None THEN state
    ELSE VecAdd(state, [i \in DOMAIN state |->
                    Get(net.hidden_noise_std) * normal(key, Len(state))[i]])

(***************************************************************************)
(* One step of the staged model: the stages of model_spec in order         *)
(***************************************************************************)
\* ravel_pytree(input)[0]: the leaves of the input tree, concatenated
RECURSIVE ravel_pytree(_)
ravel_pytree(tree) ==
    IF tree = <<>> THEN <<>> ELSE Head(tree) \o ravel_pytree(Tail(tree))

\* the field of the state a selector names, as an optional value
state_field(where, state) ==
    CASE where \in {"state.input", "input"} -> Some(state.input)
      [] where \in {"state.hidden", "hidden"} -> Some(state.hidden)
      [] where \in {"state.output", "output"} -> state.output
      [] where \in {"state.encoding", "encoding"} -> state.encoding

\* where_input(input, state)
select_input(where_input, raw_input, state) ==
    IF where_input = "ravel_pytree(input)" THEN Some(ravel_pytree(raw_input))
    ELSE state_field(where_input, state)

\* the state with the slot where_state names replaced by value
write_back(where_state, state, value) ==
    CASE where_state = "input" -> [state EXCEPT !.input = value]
      [] where_state = "hidden" -> [state EXCEPT !.hidden = value]
      [] where_state = "output" -> [state EXCEPT !.output = Some(value)]
      [] where_state = "encoding" -> [state EXCEPT !.encoding = Some(value)]

\* stage.callable(self)(stage_input, sub_state, key=key)
call_stage(net, callable, stage_input, sub_state, key) ==
    CASE callable = "input" -> stage_input
      [] callable = "encoder" -> layer_call(Get(net.encoder), stage_input)
      [] callable = "hidden" ->
            IF net.hidden.cls = "GRUCell"
            THEN GRUCell_call(net.hidden, stage_input, sub_state)
            ELSE LeakyRNNCell_call(net.hidden, stage_input, sub_state, key)
      [] callable = "wrap_stateless_callable(hidden)" ->
            layer_call(net.hidden, stage_input)
      [] callable = "wrap_stateless_keyless_callable(hidden_nonlinearity)" ->
            elementwise(net.hidden_nonlinearity, stage_input)
      [] callable = "_add_hidden_noise" ->
            add_hidden_noise(net, stage_input, sub_state, key)
      [] callable = "wrap_stateless_callable(readout)" ->
            layer_call(Get(net.readout), stage_input)
      [] callable = "wrap_stateless_keyless_callable(out_nonlinearity)" ->
            elementwise(Get(net.out_nonlinearity), stage_input)

\* a stage cannot run: it needs a field the state does not have, or an
\* attribute of the model that was never assigned
stage_raises(net, stage, raw_input, state) ==
    \/ select_input(stage.where_input, raw_input, state) = None
    \/ state_field(stage.where_state, state) = None
    \/ /\ stage.callable = "wrap_stateless_keyless_callable(out_nonlinearity)"
       /\ net.out_nonlinearity = None

\* one stage: select the input and the sub-state, call, write back
run_stage(net, stage, raw_input, state, key) ==
    write_back(stage.where_state, state,
               call_stage(net, stage.callable,
                          Get(select_input(stage.where_input, raw_input, state)),
                          Get(state_field(stage.where_state, state)), key))

\* the stages from the i-th on; trace collects the state after each stage
RECURSIVE run_stages(_, _, _, _, _, _, _)
run_stages(net, spec, i, raw_input, state, key, trace) ==
    IF i > Len(spec) THEN [raised |-> FALSE, state |-> state, trace |-> trace]
    ELSE IF stage_raises(net, spec[i], raw_input, state)
    THEN [raised |-> TRUE, state |-> state, trace |-> trace]
    ELSE LET next == run_stage(net, spec[i], raw_input, state, split(key, i))
         IN  run_stages(net, spec, i + 1, raw_input, next, key,
                        Append(trace, [label |-> spec[i].label, state |-> next]))

\* AbstractStagedModel.__call__(input, state, key=key)
staged_call(net, raw_input, state, key) ==
    run_stages(net, model_spec(net), 1, raw_input, state, key, <<>>)

\* Intervention hooks.  A hook maps (stage_input, state) to (stage_input,
\* state); these two replace one of the values each.
Hooks == {"zero_stage_input", "negate_hidden"}

apply_hook(hook, stage_input, state) ==
    CASE hook = "zero_stage_input" ->
            [stage_input |-> zeros(Len(stage_input)), state |-> state]
      [] hook = "negate_hidden" ->
            [stage_input |-> stage_input,
             state |-> [state EXCEPT !.hidden = [i \in DOMAIN @ |-> 0 - @[i]]]]

\* (a slip: the stage input is cleared before the hooks, registered or not)
apply_hooks_clears_input(hooks, stage_input, state) ==
    [stage_input |-> zeros(Len(stage_input)), state |-> state]

\* the hooks registered for a stage, applied in registration order
RECURSIVE apply_hooks(_, _, _)
apply_hooks(hooks, stage_input, state) ==
    IF hooks = <<>> THEN [stage_input |-> stage_input, state |-> state]
    ELSE LET r == apply_hook(Head(hooks), stage_input, state)
         IN  apply_hooks(Tail(hooks), r.stage_input, r.state)

\* one stage with its hooks: select the input, apply the hooks, select the
\* sub-state, call, write back
run_stage_intervened(net, stage, raw_input, state, key) ==
    LET h == apply_hooks(net.intervenors[stage.label],
                         Get(select_input(stage.where_input, raw_input, state)), state)
    IN  write_back(stage.where_state, h.state,
                   call_stage(net, stage.callable, h.stage_input,
                              Get(state_field(stage.where_state, h.state)), key))

\* (a slip: every stage is run on the state the step started from)
RECURSIVE run_stages_intervened_stale(_, _, _, _, _, _, _)
run_stages_intervened_stale(net, spec, i, raw_input, state, key, trace) ==
    IF i > Len(spec) THEN [raised |-> FALSE, state |-> state, trace |-> trace]
    ELSE IF stage_raises(net, spec[i], raw_input, state)
    THEN [raised |-> TRUE, state |-> state, trace |-> trace]
    ELSE LET next == run_stage_intervened(net, spec[i], raw_input, state, split(key, i))
         IN  run_stages_intervened_stale(net, spec, i + 1, raw_input, state, key,
                        Append(trace, [label |-> spec[i].label, state |-> next]))

\* the stages from the i-th on, each with its hooks
RECURSIVE run_stages_intervened(_, _, _, _, _, _, _)
run_stages_intervened(net, spec, i, raw_input, state, key, trace) ==
    IF i > Len(spec) THEN [raised |-> FALSE, state |-> state, trace |-> trace]
    ELSE IF stage_raises(net, spec[i], raw_input, state)
    THEN [raised |-> TRUE, state |-> state, trace |-> trace]
    ELSE LET next == run_stage_intervened(net, spec[i], raw_input, state, split(key, i))
         IN  run_stages_intervened(net, spec, i + 1, raw_input, next, key,
                        Append(trace, [label |-> spec[i].label, state |-> next]))

\* AbstractStagedModel.__call__(input, state, key=key) with the hooks of
\* self.intervenors
staged_call_intervened(net, raw_input, state, key) ==
    run_stages_intervened(net, model_spec(net), 1, raw_input, state, key, <<>>)

(***************************************************************************)
(* The network: construction, init and steps                               *)
(***************************************************************************)
\* the population structures networks are built with: the contiguous ones of
\* non-negative sizes
NetPopulations(hidden_size) ==
    {PopulationStructure(a, b, c, d, contiguous_assignment(hidden_size, a, b, c, d)) :
        <<a, b, c, d>> \in {t \in (0..hidden_size) \X (0..hidden_size)
                                    \X (0..hidden_size) \X (0..hidden_size) :
                                ~SizesMismatch(hidden_size, t[1], t[2], t[3], t[4])}}

\* the arguments of SimpleStagedNetwork.__init__, over given population
\* structures, noise levels and nonlinearities
ConfigsWith(populations, noise_stds, nonlinearities) ==
    [input_size : {InputSize},
     hidden_size : {MaxHidden},
     out_size : {None, Some(OutSize)},
     encoding_size : {None, Some(EncodingSize)},
     hidden_type : HiddenTypes,
     use_bias : BOOLEAN,
     hidden_nonlinearity : nonlinearities,
     out_nonlinearity : nonlinearities,
     hidden_noise_std : noise_stds,
     population_structure : populations,
     intervenors : {None},
     key : Keys]

\* networks without population structure, with and without hidden noise
PipelineConfigs ==
    ConfigsWith({None}, {None, Some(0), Some(1)}, Nonlinearities)

\* networks with and without population structure, without hidden noise
MaskConfigs ==
    ConfigsWith({None} \cup {Some(p) : p \in NetPopulations(MaxHidden)},
                {None}, {"identity_func"})

\* the arguments that enable the given optional stages, over every size,
\* noise level, bias flag and hidden type
PeerConfigs(encoder, noise, readout) ==
    [input_size : 1..InputSize,
     hidden_size : 1..MaxHidden,
     out_size : IF readout THEN {Some(n) : n \in 1..OutSize} ELSE {None},
     encoding_size : IF encoder THEN {Some(n) : n \in 1..EncodingSize} ELSE {None},
     hidden_type : HiddenTypes,
     use_bias : BOOLEAN,
     hidden_nonlinearity : {"identity_func"},
     out_nonlinearity : {"identity_func"},
     hidden_noise_std : IF noise THEN {Some(0), Some(1)} ELSE {None},
     population_structure : {None},
     intervenors : {None},
     key : {1}]

\* the raw inputs of a step: a tree of two leaves when there are two
\* elements or more, of one leaf otherwise
RawInputs(input_size) ==
    IF input_size >= 2
    THEN {<<SubSeq(v, 1, 1), SubSeq(v, 2, input_size)>> :
            v \in Vectors(input_size, InputVals)}
    ELSE {<<v>> : v \in Vectors(input_size, InputVals)}

Construct(configs) ==
    /\ network = None
    /\ \E cfg \in configs : network' = Some(SimpleStagedNetwork(cfg))
    /\ UNCHANGED <<net_state, net_last, popVars, mlVars, cellVars, lossVars>>

NetConstruct == Construct(PipelineConfigs)

MaskedNetConstruct == Construct(MaskConfigs)

\* every number of a state lies within the bound on activities
Bounded(v) == \A i \in DOMAIN v : v[i] >= -MaxAct /\ v[i] <= MaxAct
StateBounded(state) ==
    /\ Bounded(state.input)
    /\ Bounded(state.hidden)
    /\ state.output # None => Bounded(Get(state.output))
    /\ state.encoding # None => Bounded(Get(state.encoding))

NetInitState ==
    /\ network # None
    /\ net_state = None
    /\ net_state' = Some(init(Get(network)))
    /\ UNCHANGED <<network, net_last, popVars, mlVars, cellVars, lossVars>>

\* what the hidden stage's input contributed to each row of the hidden
\* layer's pre-activation in a step with this trace (None if the hidden stage
\* did not run).  The hidden stage leaves the field it reads as it was.
hidden_drive(net, trace) ==
    LET at == {i \in DOMAIN trace : trace[i].label = "hidden"}
    IN  IF at = {} THEN None
        ELSE LET state == trace[CHOOSE i \in at : TRUE].state
                 stage == CHOOSE st \in Range(model_spec(net)) : st.label = "hidden"
             IN  Some(input_drive(net.hidden,
                        Get(state_field(stage.where_input, state))))

\* one call of the model on the state the caller holds; a call that raises
\* returns no state
NetStep ==
    /\ network # None
    /\ net_state # None
    /\ \E raw_input \in RawInputs(Get(network).input_size), key \in Keys :
        LET r == staged_call(Get(network), raw_input, Get(net_state), key)
        IN  /\ net_last' = Some([raw_input |-> raw_input, raised |-> r.raised,
                                 trace |-> r.trace,
                                 hidden_drive |-> hidden_drive(Get(network), r.trace)])
            /\ net_state' = IF r.raised THEN net_state ELSE Some(r.state)
            /\ StateBounded(r.state)
    /\ UNCHANGED <<network, popVars, mlVars, cellVars, lossVars>>

\* a parameter update: the hidden layer's raw input weights are replaced by
\* new numbers (eqx.tree_at on hidden.weight_ih); nothing else changes
replace_weight_ih(net, w) == [net EXCEPT !.hidden.weight_ih = w]

\* the matrix of w's shape filled with v
filled_like(w, v) == [i \in DOMAIN w |-> [j \in DOMAIN w[i] |-> v]]

ReplaceHiddenWeights ==
    /\ network # None
    /\ hasattr(Get(network).hidden, "weight_ih")
    /\ \E v \in UpdateVals :
            network' = Some(replace_weight_ih(Get(network),
                                filled_like(Get(network).hidden.weight_ih, v)))
    /\ UNCHANGED <<net_state, net_last, popVars, mlVars, cellVars, lossVars>>

\* every stage label a model_spec may hold
AllLabels ==
    {"input", "encoder", "hidden", "hidden_nonlinearity", "hidden_noise",
     "readout", "out_nonlinearity"}

\* the intervenors argument: omitted, an empty list for every label, or one
\* hook for one stage
HookArgs ==
    {None, Some([label \in AllLabels |-> <<>>])}
    \cup {Some([l \in {label} |-> <<hook>>]) :
            label \in {"hidden", "out_nonlinearity"}, hook \in Hooks}

\* networks with hidden noise and without population structure, over the
\* intervenors arguments
HookConfigs ==
    {[cfg EXCEPT !.intervenors = h] :
        cfg \in ConfigsWith({None}, {Some(1)}, {"identity_func"}), h \in HookArgs}

HookedNetConstruct == Construct(HookConfigs)

\* one call of the model, hooks included; the step is recorded with the state
\* and the key it was called with
HookedNetStep ==
    /\ network # None
    /\ net_state # None
    /\ \E raw_input \in RawInputs(Get(network).input_size), key \in Keys :
        LET r == staged_call_intervened(Get(network), raw_input, Get(net_state), key)
        IN  /\ net_last' = Some([raw_input |-> raw_input, raised |-> r.raised,
                                 trace |-> r.trace, state_in |-> Get(net_state),
                                 key |-> key])
            /\ net_state' = IF r.raised THEN net_state ELSE Some(r.state)
            /\ StateBounded(r.state)
    /\ UNCHANGED <<network, popVars, mlVars, cellVars, lossVars>>

NetInit ==
    /\ network = None
    /\ net_state = None
    /\ net_last = None

(***************************************************************************)
(* A LeakyRNNCell on its own: construction, parameter updates and calls     *)
(***************************************************************************)
\* <<dt, tau>>: equal, or dt a multiple of tau
TimeConstants == {<<1, 1>>, <<2, 2>>, <<2, 1>>}
CellNonlinearities == {"tanh", "identity_func"}
StateVals == {-1, 0, 1}   \* entries of a state vector

LeakyConstruct ==
    /\ leaky = None
    /\ \E input_size \in 0..InputSize, hidden_size \in 1..MaxHidden,
          use_bias \in BOOLEAN, use_noise \in BOOLEAN, t \in TimeConstants,
          nonlinearity \in CellNonlinearities, key \in Keys :
            leaky' = Some(LeakyRNNCell_init(input_size, hidden_size, use_bias,
                            use_noise, 1, t[1], t[2], nonlinearity, key))
    /\ UNCHANGED <<leaky_last, popVars, mlVars, netVars, lossVars>>

\* a parameter update: weight_hh is kept or filled with a new number, weight_ih
\* is kept or set to zeros (eqx.tree_at on the cell); the updated cell has not
\* been called yet
LeakySetWeights ==
    /\ leaky # None
    /\ \E w_hh \in {Get(leaky).weight_hh}
                    \cup {filled_like(Get(leaky).weight_hh, v) : v \in UpdateVals},
          w_ih \in {Get(leaky).weight_ih, filled_like(Get(leaky).weight_ih, 0)} :
            leaky' = Some([Get(leaky) EXCEPT !.weight_hh = w_hh, !.weight_ih = w_ih])
    /\ leaky_last' = None
    /\ UNCHANGED <<popVars, mlVars, netVars, lossVars>>

\* one call of the cell with an input of input_size entries and a state of
\* hidden_size entries.  The call is a pure function of the cell and its
\* arguments: one call is followed per cell as it is now.
LeakyCall ==
    /\ leaky # None
    /\ leaky_last = None
    /\ \E input \in Vectors(Get(leaky).input_size, InputVals),
          state \in Vectors(Get(leaky).hidden_size, StateVals), key \in Keys :
        LET raised == LeakyRNNCell_call_raises(Get(leaky), input, state)
        IN  leaky_last' =
                Some([input |-> input, state |-> state, raised |-> raised,
                      out |-> IF raised THEN None
                              ELSE Some(LeakyRNNCell_call(Get(leaky), input, state, key))])
    /\ UNCHANGED <<leaky, popVars, mlVars, netVars, lossVars>>

LeakyInit ==
    /\ leaky = None
    /\ leaky_last = None

(***************************************************************************)
(* Losses (src/feedbax/loss.py)                                            *)
(***************************************************************************)
\* a trajectory of network states is a tree of the states' structure: its
\* output field is None exactly when the states' output field is None
trajectory_output(states) ==
    IF \E t \in DOMAIN states : states[t].output = None THEN None
    ELSE Some([t \in DOMAIN states |-> Get(states[t].output)])

\* NetworkOutputLoss.term: the assertion on states.net.output
NetworkOutputLoss_term_raises(states) == trajectory_output(states) = None

SumSquares(v) == SumSeq([i \in DOMAIN v |-> v[i] * v[i]])

\* NetworkOutputLoss.term: the squared outputs summed over channels and time
NetworkOutputLoss_term(states) ==
    LET output == Get(trajectory_output(states))
    IN  SumSeq([t \in DOMAIN output |-> SumSquares(output[t])])

\* A dictionary keeps its insertion order: a sequence of <<key, value>>
\* pairs of distinct keys.
keys(d) == [i \in DOMAIN d |-> d[i][1]]
values(d) == [i \in DOMAIN d |-> d[i][2]]
InSeq(x, s) == \E i \in DOMAIN s : s[i] = x

\* dict(zip(ks, vs)): a repeated key keeps its first place and its last value
RECURSIVE dict_zip(_, _)
dict_zip(ks, vs) ==
    IF ks = <<>> THEN <<>>
    ELSE LET n == Len(ks)
             rest == dict_zip(SubSeq(ks, 1, n - 1), SubSeq(vs, 1, n - 1))
         IN  IF InSeq(ks[n], keys(rest))
             THEN [i \in DOMAIN rest |->
                    IF rest[i][1] = ks[n] THEN <<ks[n], vs[n]>> ELSE rest[i]]
             ELSE Append(rest, <<ks[n], vs[n]>>)

\* the value of key k in dictionary d
lookup(d, k) == d[CHOOSE i \in DOMAIN d : d[i][1] = k][2]

RECURSIVE suffixed_label(_, _, _)
suffixed_label(label, invalid_labels, i) ==
    LET candidate == label \o "_" \o ToString(i)
    IN  IF InSeq(candidate, invalid_labels)
        THEN suffixed_label(label, invalid_labels, i + 1)
        ELSE candidate

\* feedbax.misc.get_unique_label: the label, suffixed with the lowest integer
\* that makes it differ from every invalid label
get_unique_label(label, invalid_labels) ==
    IF InSeq(label, invalid_labels)
    THEN suffixed_label(label, invalid_labels, 0)
    ELSE label

\* a simple loss term
SimpleLoss(cls, label) ==
    [cls |-> cls, label |-> label, terms |-> <<>>, weights |-> <<>>]

isinstance_CompositeLoss(term) == term.cls = "CompositeLoss"

\* The terms argument is a Sequence or a Mapping and the weights argument is
\* None, a Sequence or a Mapping: [kind, items], items being <<key, value>>
\* pairs (the key of a Sequence's item is "" and is never read).
Sequence(vs) == [kind |-> "Sequence", items |-> [i \in DOMAIN vs |-> <<"", vs[i]>>]]
Mapping(d) == [kind |-> "Mapping", items |-> d]
NoWeights == [kind |-> "None", items |-> <<>>]

\* labels of the supplied terms; unpacking zip(*terms.items()) of an empty
\* mapping into two names fails
labels_unpack_raises(terms, user_labels) ==
    terms.kind = "Mapping" /\ user_labels /\ terms.items = <<>>

term_labels(terms, user_labels) ==
    IF terms.kind = "Mapping" /\ user_labels THEN keys(terms.items)
    ELSE [i \in DOMAIN terms.items |-> terms.items[i][2].label]

weight_values(terms, weights) ==
    IF weights.kind = "None" THEN [i \in DOMAIN terms.items |-> 1]
    ELSE values(weights.items)

\* (a slip: only missing weights are reported, spare weights are dropped)
CountMismatch_spare_weights_dropped(terms, weights) ==
    Len(terms.items) > Len(weight_values(terms, weights))

\* the ValueError on the numbers of terms and weights
CountMismatch(terms, weights) ==
    Len(terms.items) # Len(weight_values(terms, weights))

CompositeLoss_raises(terms, weights, label, user_labels) ==
    labels_unpack_raises(terms, user_labels) \/ CountMismatch(terms, weights)

\* the positions of the supplied terms that are simple (or composite), in order
RECURSIVE positions(_, _, _)
positions(terms, composite, i) ==
    IF i > Len(terms.items) THEN <<>>
    ELSE (IF isinstance_CompositeLoss(terms.items[i][2]) = composite
          THEN <<i>> ELSE <<>>) \o positions(terms, composite, i + 1)

\* every simple label is made to differ from the labels before it
RECURSIVE unique_simple_labels(_, _)
unique_simple_labels(all_labels, i) ==
    IF i > Len(all_labels) THEN all_labels
    ELSE unique_simple_labels(
            [all_labels EXCEPT ![i] =
                get_unique_label(all_labels[i], SubSeq(all_labels, 1, i - 1))],
            i + 1)

\* the labels of a composite term's terms, prefixed by the label the term was
\* supplied under or else by its own label
flattened_labels(group_label, composite_term) ==
    LET labels == keys(composite_term.terms)
    IN  IF group_label # ""
        THEN [i \in DOMAIN labels |-> group_label \o "_" \o labels[i]]
        ELSE IF composite_term.label # ""
        THEN [i \in DOMAIN labels |-> composite_term.label \o "_" \o labels[i]]
        ELSE labels

RECURSIVE append_unique(_, _)
append_unique(all_labels, labels) ==
    IF labels = <<>> THEN all_labels
    ELSE append_unique(
            Append(all_labels, get_unique_label(Head(labels), all_labels)),
            Tail(labels))

\* a composite term's weights scaled by the weight of the composite term
scaled_weights(group_weight, composite_term) ==
    [i \in DOMAIN composite_term.weights |->
        group_weight * composite_term.weights[i][2]]

\* the loop over the composite terms: acc is [labels, terms, weights]
RECURSIVE flatten_composites(_, _, _)
flatten_composites(acc, tuples, i) ==
    IF i > Len(tuples) THEN acc
    ELSE LET group_label == tuples[i][1]
             composite_term == tuples[i][2]
             group_weight == tuples[i][3]
         IN  flatten_composites(
                [labels |-> append_unique(acc.labels,
                                flattened_labels(group_label, composite_term)),
                 terms |-> acc.terms \o values(composite_term.terms),
                 weights |-> acc.weights \o scaled_weights(group_weight, composite_term)],
                tuples, i + 1)

\* CompositeLoss.__init__, for arguments it does not raise on
CompositeLoss(terms, weights, label, user_labels) ==
    LET labels == term_labels(terms, user_labels)
        ws == weight_values(terms, weights)
        tuple_at(i) == <<labels[i], terms.items[i][2], ws[i]>>
        simple == positions(terms, FALSE, 1)
        composite == positions(terms, TRUE, 1)
        acc0 == [labels |-> unique_simple_labels(
                                [k \in DOMAIN simple |-> labels[simple[k]]], 1),
                 terms |-> [k \in DOMAIN simple |-> terms.items[simple[k]][2]],
                 weights |-> [k \in DOMAIN simple |-> ws[simple[k]]]]
        all == flatten_composites(acc0,
                    [k \in DOMAIN composite |-> tuple_at(composite[k])], 1)
    IN  [cls |-> "CompositeLoss", label |-> label,
         terms |-> dict_zip(all.labels, all.terms),
         weights |-> dict_zip(all.labels, all.weights)]

\* AbstractLoss.__add__, __sub__, __neg__ and __mul__
AbstractLoss_add(self, other) ==
    CompositeLoss(Sequence(<<self, other>>), Sequence(<<1, 1>>), "", TRUE)
AbstractLoss_sub(self, other) ==
    CompositeLoss(Sequence(<<self, other>>), Sequence(<<1, -1>>), "", TRUE)
AbstractLoss_neg(self) ==
    CompositeLoss(Sequence(<<self>>), Sequence(<<-1>>), "", TRUE)
AbstractLoss_mul(self, other) ==
    CompositeLoss(Sequence(<<self>>), Sequence(<<other>>), "", TRUE)

(***************************************************************************)
(* A CompositeLoss: construction                                           *)
(***************************************************************************)
SimpleLosses ==
    {SimpleLoss("NetworkOutputLoss", "NN output"),
     SimpleLoss("NetworkActivityLoss", "NN hidden activity")}

LossWeights == {2, 3}

\* composite losses built beforehand: sums, scalar multiples and negations of
\* simple terms, and labelled composites of one term
CompositeLosses ==
    {AbstractLoss_add(s, t) : s \in SimpleLosses, t \in SimpleLosses}
    \cup {AbstractLoss_mul(s, w) : s \in SimpleLosses, w \in LossWeights}
    \cup {AbstractLoss_neg(s) : s \in SimpleLosses}
    \cup {CompositeLoss(Sequence(<<s>>), NoWeights, "g", TRUE) : s \in SimpleLosses}

\* sequences of at most n elements of S
SeqsUpTo(S, n) == UNION {[1..k -> S] : k \in 0..n}

MapKeys == {"x", "y"}

\* dictionaries of at most n items with keys in MapKeys and values in S, in
\* every insertion order
Dicts(S, n) ==
    {d \in SeqsUpTo(MapKeys \X S, n) :
        \A i \in DOMAIN d : \A j \in DOMAIN d : i # j => d[i][1] # d[j][1]}

TermArgs ==
    {Sequence(ts) : ts \in SeqsUpTo(SimpleLosses \cup CompositeLosses, MaxTerms)}
    \cup {Mapping(d) : d \in Dicts(SimpleLosses \cup CompositeLosses, MaxTerms)}

WeightArgs ==
    {NoWeights}
    \cup {Sequence(ws) : ws \in SeqsUpTo(LossWeights, MaxTerms)}
    \cup {Mapping(d) : d \in Dicts(LossWeights, MaxTerms)}

CompositeConstruct ==
    /\ loss_pc = "idle"
    /\ \E terms \in TermArgs, weights \in WeightArgs, user_labels \in BOOLEAN :
        /\ loss_args' = Some([terms |-> terms, weights |-> weights,
                              label |-> "total", user_labels |-> user_labels])
        /\ IF CompositeLoss_raises(terms, weights, "total", user_labels)
           THEN loss_pc' = "raised" /\ loss' = None
           ELSE /\ loss_pc' = "returned"
                /\ loss' = Some(CompositeLoss(terms, weights, "total", user_labels))
    /\ UNCHANGED <<popVars, mlVars, netVars, cellVars>>

LossInit ==
    /\ loss_pc = "idle"
    /\ loss_args = None
    /\ loss = None

PopInit ==
    /\ ps_pc = "idle"
    /\ ps_args = None
    /\ ps = None

Init == PopInit /\ MLInit /\ NetInit /\ LeakyInit /\ LossInit

NextPop == Create \/ CreateScenario

SpecPop == Init /\ [][NextPop]_vars

NextML == MLConstruct \/ MLReplaceWeight \/ MLCall

SpecML == Init /\ [][NextML]_vars

NextNet == NetConstruct \/ NetInitState \/ NetStep

SpecNet == Init /\ [][NextNet]_vars

NextMask == MaskedNetConstruct \/ NetInitState \/ NetStep \/ ReplaceHiddenWeights

SpecMask == Init /\ [][NextMask]_vars

\* construction alone: a network, with or without population structure, is
\* built and its initial state taken
NextBuild == MaskedNetConstruct \/ NetInitState

SpecBuild == Init /\ [][NextBuild]_vars

NextCell == LeakyConstruct \/ LeakySetWeights \/ LeakyCall

SpecCell == Init /\ [][NextCell]_vars

NextLoss == CompositeConstruct

SpecLoss == Init /\ [][NextLoss]_vars

NextHooks == HookedNetConstruct \/ NetInitState \/ HookedNetStep

SpecHooks == Init /\ [][NextHooks]_vars

(***************************************************************************)
(* Properties of PopulationStructure.create                                *)
(***************************************************************************)
ArgsSum ==
    Get(ps_args).n_input_only + Get(ps_args).n_readout_only
        + Get(ps_args).n_recurrent_only + Get(ps_args).n_input_readout

ArgsNonNegative ==
    /\ Get(ps_args).n_input_only >= 0
    /\ Get(ps_args).n_readout_only >= 0
    /\ Get(ps_args).n_recurrent_only >= 0
    /\ Get(ps_args).n_input_readout >= 0

\* the four index arrays of p, in declaration order
FourArrays(p) ==
    <<p.input_only_indices, p.readout_only_indices,
      p.recurrent_only_indices, p.input_readout_indices>>

NoRepeats(s) == \A i, j \in DOMAIN s : s[i] = s[j] => i = j

PairwiseDisjoint(p) ==
    \A i, j \in 1..4 :
        i # j => Range(FourArrays(p)[i]) \cap Range(FourArrays(p)[j]) = {}

Covers(p, hidden_size) ==
    UNION {Range(FourArrays(p)[i]) : i \in 1..4} = 0..(hidden_size - 1)

IsPartition(p, hidden_size) ==
    /\ PairwiseDisjoint(p)
    /\ Covers(p, hidden_size)
    /\ \A i \in 1..4 : NoRepeats(FourArrays(p)[i])

SizesAgree(p) ==
    /\ Cardinality(Range(p.input_only_indices)) = p.n_input_only
    /\ Cardinality(Range(p.readout_only_indices)) = p.n_readout_only
    /\ Cardinality(Range(p.recurrent_only_indices)) = p.n_recurrent_only
    /\ Cardinality(Range(p.input_readout_indices)) = p.n_input_readout

\* C8: create raises, and returns no structure, exactly when the four sizes
\* do not sum to hidden_size; when they do it raises no such error.
C8_RaisesIffSumDiffers ==
    ps_pc # "idle" =>
        /\ (ps_pc = "raised") <=> (ArgsSum # Get(ps_args).hidden_size)
        /\ (ps_pc = "raised") => ps = None
        /\ (ps_pc = "returned") => ps # None

C8_Witness ==
    /\ ps_pc = "raised"
    /\ ArgsSum < Get(ps_args).hidden_size
    /\ ps = None

\* C9: with non-negative sizes summing to hidden_size and the default random
\* or the contiguous assignment, the four index sets are pairwise disjoint,
\* their union is 0..hidden_size-1 and each has the size its n_* field names.
C9_FourSetsPartition ==
    (/\ ps_pc = "returned"
     /\ Get(ps_args).assignment_fn \in {"random", "contiguous"}
     /\ ArgsNonNegative)
    => /\ IsPartition(Get(ps), Get(ps_args).hidden_size)
       /\ SizesAgree(Get(ps))

C9_Witness ==
    /\ ps_pc = "returned"
    /\ Get(ps_args).assignment_fn = "random"
    /\ Get(ps_args).hidden_size = MaxHidden
    /\ ArgsNonNegative
    /\ Get(ps).n_recurrent_only = 1
    /\ Get(ps).n_input_readout = 1
    /\ Get(ps).input_readout_indices = <<0>>

\* C10: no call of create returns a structure whose four index sets fail to
\* partition 0..hidden_size-1 (custom assignments and negative sizes included).
C10_NonPartitionRejected ==
    ps_pc = "returned" => IsPartition(Get(ps), Get(ps_args).hidden_size)

\* C11: in every structure create returns, whatever the assignment function,
\* input_indices holds exactly the input-only and the input-readout indices
\* and readout_indices exactly the readout-only and the input-readout ones.
C11_DerivedIndices ==
    ps_pc = "returned" =>
        LET p == Get(ps)
        IN  /\ Range(p.input_indices) =
                    Range(p.input_only_indices) \cup Range(p.input_readout_indices)
            /\ Len(p.input_indices) =
                    Len(p.input_only_indices) + Len(p.input_readout_indices)
            /\ Range(p.readout_indices) =
                    Range(p.readout_only_indices) \cup Range(p.input_readout_indices)
            /\ Len(p.readout_indices) =
                    Len(p.readout_only_indices) + Len(p.input_readout_indices)

C11_Witness ==
    /\ ps_pc = "returned"
    /\ Get(ps_args).assignment_fn = "custom"
    /\ Get(ps).input_only_indices # <<>>
    /\ Get(ps).readout_only_indices # <<>>
    /\ Get(ps).input_readout_indices # <<>>
    /\ Get(ps).input_only_indices # Get(ps).readout_only_indices
    /\ Get(ps).input_only_indices # Get(ps).input_readout_indices

\* the integers lo, lo+1, .., hi-1
HalfOpen(lo, hi) == lo..(hi - 1)

\* the array lists exactly the integers of [lo, hi), each once
IsBlock(s, lo, hi) == Range(s) = HalfOpen(lo, hi) /\ NoRepeats(s)

\* C12: with contiguous_assignment and sizes (a, b, c, d) summing to H the
\* populations are the blocks [0, a), [a, a+b), [a+b, a+b+c), [a+b+c, H); for
\* H = 6 and (2, 2, 1, 1), input_indices is {0, 1, 5} and readout_indices is
\* {2, 3, 5}.
C12_ContiguousBlocks ==
    (ps_pc = "returned" /\ Get(ps_args).assignment_fn = "contiguous") =>
        LET p == Get(ps)
            a == Get(ps_args).n_input_only
            b == Get(ps_args).n_readout_only
            c == Get(ps_args).n_recurrent_only
            H == Get(ps_args).hidden_size
        IN  /\ IsBlock(p.input_only_indices, 0, a)
            /\ IsBlock(p.readout_only_indices, a, a + b)
            /\ IsBlock(p.recurrent_only_indices, a + b, a + b + c)
            /\ IsBlock(p.input_readout_indices, a + b + c, H)
            /\ Get(ps_args) = ScenarioArgs =>
                    /\ Range(p.input_indices) = {0, 1, 5}
                    /\ Range(p.readout_indices) = {2, 3, 5}

C12_Witness ==
    /\ ps_pc = "returned"
    /\ Get(ps_args) = ScenarioArgs
    /\ Get(ps).input_only_indices = <<0, 1>>
    /\ Get(ps).input_readout_indices = <<5>>

(***************************************************************************)
(* Properties of MaskedLinear                                              *)
(***************************************************************************)
\* the contribution of input x to output unit i through the weight positions
\* the mask leaves open
OpenContribution(layer, x, i) ==
    SumSeq([j \in DOMAIN x |->
                IF layer.mask[i][j] = 0 THEN 0 ELSE layer.linear.weight[i][j] * x[j]])

BiasTerm(layer, i) ==
    IF layer.linear.bias = None THEN 0 ELSE Get(layer.linear.bias)[i]

\* what a forward call of layer on x must return
ExpectedOutput(layer, x) ==
    [i \in DOMAIN layer.mask |-> OpenContribution(layer, x, i) + BiasTerm(layer, i)]

\* C6: whatever the raw weight has been replaced by, every forward call
\* computes its output from raw_weight * mask: the weight positions where the
\* mask is 0 contribute nothing, and the output is the contribution of the
\* open positions plus the bias.
C6_MaskSurvivesWeightMutation ==
    [][(ml # None /\ ml' = ml /\ ml_x' # None)
        => ml_out' = Some(ExpectedOutput(Get(ml), Get(ml_x')))]_vars

\* a forward call after a replacement that put a non-zero weight where the
\* mask is 0, on an input that is non-zero there
C6_Witness ==
    /\ ml # None
    /\ ml_out # None
    /\ ml_out = Some(MaskedLinear_call(Get(ml), Get(ml_x)))
    /\ \E i \in DOMAIN Get(ml).mask : \E j \in DOMAIN Get(ml).mask[i] :
        /\ Get(ml).mask[i][j] = 0
        /\ Get(ml).linear.weight[i][j] # 0
        /\ Get(ml_x)[j] # 0

\* C26: the mask of a MaskedLinear always equals the mask its constructor was
\* given: the masking of the initial weight, the forward calls and the
\* replacements of the raw weight leave it unchanged.
C26_MaskNeverMutated ==
    ml # None => Get(ml).mask = Get(ml_mask)

\* a layer with a closed and an open position, after a replacement of its
\* weight and a forward call
C26_Witness ==
    /\ ml # None
    /\ ml_out # None
    /\ \E i \in DOMAIN Get(ml).mask : \E j \in DOMAIN Get(ml).mask[i] :
        /\ Get(ml).mask[i][j] = 0
        /\ Get(ml).linear.weight[i][j] = 2
    /\ \E i \in DOMAIN Get(ml).mask : \E j \in DOMAIN Get(ml).mask[i] :
            Get(ml).mask[i][j] = 1
(***************************************************************************)
(* Properties of SimpleStagedNetwork                                       *)
(***************************************************************************)
Net == Get(network)
NetSpec == model_spec(Net)
NetLabels == Labels(NetSpec)
HasStage(label) == \E i \in DOMAIN NetSpec : NetSpec[i].label = label
StageOf(label) == NetSpec[CHOOSE i \in DOMAIN NetSpec : NetSpec[i].label = label]

EncoderConfigured == Net.encoding_size # None
ReadoutConfigured == Net.readout # None
NoiseConfigured == Net.hidden_noise_std # None

\* a step has completed: the caller holds the state after its last stage
Stepped == net_last # None /\ ~Get(net_last).raised

\* C1: in every configuration the first stage of model_spec is labelled
\* input and writes the flattened raw input into state.input, so that after
\* any step state.input is the flattened raw input of that step.
C1_InputStageAlwaysFirst ==
    network # None =>
        /\ NetSpec[1].label = "input"
        /\ NetSpec[1].where_input = "ravel_pytree(input)"
        /\ NetSpec[1].where_state = "input"
        /\ Stepped => Get(net_state).input = ravel_pytree(Get(net_last).raw_input)

NotInput(label) == label # "input"

\* the stages other than input that the configuration asks for, in the order
\* of the recipe
ExpectedLabels ==
    (IF EncoderConfigured THEN <<"encoder">> ELSE <<>>)
    \o <<"hidden", "hidden_nonlinearity">>
    \o (IF NoiseConfigured THEN <<"hidden_noise">> ELSE <<>>)
    \o (IF ReadoutConfigured THEN <<"readout">> ELSE <<>>)
    \o <<"out_nonlinearity">>

C3_BareNetwork ==
    (network # None /\ ~EncoderConfigured /\ ~ReadoutConfigured) =>
        /\ Range(NetLabels) =
                {"input", "hidden", "hidden_nonlinearity", "out_nonlinearity"}
                \cup (IF NoiseConfigured THEN {"hidden_noise"} ELSE {})
        /\ Len(NetLabels) = Cardinality(Range(NetLabels))
        /\ (net_state # None /\ net_last = None) =>
                /\ Get(net_state).output = None
                /\ Get(net_state).encoding = None

\* C4: in the initial state and after any number of steps, state.output is
\* present iff the pipeline has a readout stage and state.encoding is present
\* iff it has an encoder stage.
C4_FieldPresenceMatchesStages ==
    (network # None /\ net_state # None) =>
        /\ (Get(net_state).output # None) <=> HasStage("readout")
        /\ (Get(net_state).encoding # None) <=> HasStage("encoder")

\* the bias of the readout layer, or None when the layer has none
ReadoutBias ==
    IF Get(Net.readout).cls = "MaskedLinear"
    THEN Get(Net.readout).linear.bias
    ELSE Get(Net.readout).bias

\* C5: right after construction the readout's bias is all zeros, both for
\* the plain readout layer and for the MaskedLinear readout of a network
\* with a population structure.
C5_ReadoutBiasZero ==
    (network # None /\ ReadoutConfigured /\ ReadoutBias # None) =>
        \A i \in DOMAIN Get(ReadoutBias) : Get(ReadoutBias)[i] = 0

\* the hidden unit (0-based) a row of the hidden layer's input weights
\* belongs to
UnitOfRow(r) == (r - 1) % Net.hidden_size

\* C7: in a network with a population structure whose hidden layer has
\* input weights weight_ih, however these have been replaced, every step
\* gives the rows of hidden units outside input_indices no contribution
\* from the stage input.
C7_HiddenMaskReapplied ==
    (/\ network # None
     /\ Net.population_structure # None
     /\ hasattr(Net.hidden, "weight_ih")
     /\ Stepped
     /\ Get(net_last).hidden_drive # None)
    => \A r \in DOMAIN Get(Get(net_last).hidden_drive) :
            UnitOfRow(r) \notin Range(Get(Net.population_structure).input_indices)
            => Get(Get(net_last).hidden_drive)[r] = 0

\* the networks that enable the same optional stages as the one built
Peers ==
    {SimpleStagedNetwork(cfg) :
        cfg \in PeerConfigs(EncoderConfigured, NoiseConfigured, ReadoutConfigured)}

\* C13: the stage label sequence depends only on which optional stages are
\* enabled: every network with the same encoder, noise and readout flags,
\* whatever its sizes, noise level (0 included) and bias flag, has the label
\* sequence of the network built.
C13_LabelsDependOnFlagsOnly ==
    network # None =>
        \A peer \in Peers : Labels(model_spec(peer)) = NetLabels

C13_Witness ==
    /\ network # None
    /\ Net.hidden_noise_std = Some(1)
    /\ EncoderConfigured /\ ReadoutConfigured
    /\ \E peer \in Peers :
        /\ peer.hidden_noise_std = Some(0)
        /\ peer.hidden_size # Net.hidden_size
        /\ (peer.hidden.bias = None) # (Net.hidden.bias = None)
        /\ Labels(model_spec(peer)) = NetLabels

\* C14: the out_nonlinearity stage reads and writes state.output when a
\* readout is configured and state.hidden when none is.
C14_OutNonlinearityTarget ==
    network # None =>
        /\ HasStage("out_nonlinearity")
        /\ StageOf("out_nonlinearity").where_input =
                IF ReadoutConfigured THEN "state.output" ELSE "state.hidden"
        /\ StageOf("out_nonlinearity").where_state =
                IF ReadoutConfigured THEN "output" ELSE "hidden"

\* C15: a hidden layer is wrapped as stateless when its call takes one
\* positional argument and used as stateful when it takes two; a layer of any
\* other arity is refused, so no network exists whose hidden stage uses such a
\* layer.
C15_OtherArityRejected ==
    network # None =>
        /\ n_positional_args(Net.hidden) \in {1, 2}
        /\ n_positional_args(Net.hidden) = 1 =>
                StageOf("hidden").callable = "wrap_stateless_callable(hidden)"
        /\ n_positional_args(Net.hidden) = 2 =>
                StageOf("hidden").callable = "hidden"

(***************************************************************************)
(* Properties of LeakyRNNCell                                               *)
(***************************************************************************)
Cell == Get(leaky)
Called == leaky # None /\ leaky_last # None
LastCall == Get(leaky_last)

\* C16: a call of LeakyRNNCell with an input of input_size entries and a
\* state of hidden_size entries never raises, with use_noise enabled
\* included.
C16_CallNeverFails ==
    (Called /\ Cell.input_size > 0) =>
        /\ ~LastCall.raised
        /\ LastCall.out # None
        /\ Len(Get(LastCall.out)) = Cell.hidden_size

\* every entry of the matrix is 0
AllZero(w) == \A i \in DOMAIN w : \A j \in DOMAIN w[i] : w[i][j] = 0

\* the cell of the literal test: dt = tau, identity, no bias, no noise, an
\* input weight matrix of zeros
NoLeakCell ==
    /\ Cell.dt = Cell.tau
    /\ Cell.nonlinearity = "identity_func"
    /\ ~Cell.use_bias
    /\ ~Cell.use_noise
    /\ Cell.input_size > 0
    /\ AllZero(Cell.weight_ih)

\* C17: with dt = tau, identity nonlinearity, no bias, no noise and zero
\* input weights, one call maps every state to weight_hh applied to it.
C17_NoLeakMemory ==
    (Called /\ NoLeakCell) =>
        /\ ~LastCall.raised
        /\ LastCall.out = Some(MatVec(Cell.weight_hh, LastCall.state))

C17_Witness ==
    /\ Called /\ NoLeakCell
    /\ ~LastCall.raised
    /\ Cell.hidden_size >= 2
    /\ LastCall.out = Some(MatVec(Cell.weight_hh, LastCall.state))
    /\ Get(LastCall.out) # LastCall.state
    /\ \E i \in DOMAIN LastCall.input : LastCall.input[i] # 0
    /\ \E i \in DOMAIN LastCall.state : Get(LastCall.out)[i] # 0

\* the update without an input term
NoInputUpdate(rnn, state) ==
    LET bias == IF rnn.use_bias THEN Get(rnn.bias) ELSE zeros(Len(state))
        act == elementwise(rnn.nonlinearity, VecAdd(MatVec(rnn.weight_hh, state), bias))
    IN  [i \in DOMAIN state |-> (1 - alpha(rnn)) * state[i] + alpha(rnn) * act[i]]

\* C18: a cell with input_size = 0 can be built, and a call with the empty
\* input returns a state of hidden_size entries to which the input term
\* contributes nothing.
C18_ZeroInputSize ==
    (Called /\ Cell.input_size = 0 /\ ~Cell.use_noise) =>
        /\ ~LastCall.raised
        /\ LastCall.out # None
        /\ Len(Get(LastCall.out)) = Cell.hidden_size
        /\ Get(LastCall.out) = NoInputUpdate(Cell, LastCall.state)

(***************************************************************************)
(* Properties of a step of the staged model                                 *)
(***************************************************************************)
LastStep == Get(net_last)

\* no hook is registered for any stage label
NoHooksRegistered == \A label \in DOMAIN Net.intervenors : Net.intervenors[label] = <<>>

\* the same call without the intervention step
PlainStep == staged_call(Net, LastStep.raw_input, LastStep.state_in, LastStep.key)

\* C19: with zero hooks registered for every stage label, a step gives, for
\* any raw input, previous state and key, the state the pipeline gives
\* without intervention.
C19_ZeroHooksChangeNothing ==
    (network # None /\ net_last # None /\ NoHooksRegistered) =>
        /\ LastStep.raised = PlainStep.raised
        /\ LastStep.trace = PlainStep.trace
        /\ ~LastStep.raised => net_state = Some(PlainStep.state)

C19_Witness ==
    /\ network # None /\ Stepped /\ NoHooksRegistered
    /\ net_state = Some(PlainStep.state)
    /\ net_state # Some(LastStep.state_in)
    /\ \E i \in DOMAIN Get(net_state).hidden : Get(net_state).hidden[i] # 0
    /\ \E i \in DOMAIN Get(net_state).input : Get(net_state).input[i] # 0

\* the state the k-th stage of the last step started from
StateBefore(k) == IF k = 1 THEN LastStep.state_in ELSE LastStep.trace[k - 1].state

\* C20: in a step every stage of model_spec runs exactly once, in pipeline
\* order; stage k+1 works from the state stage k wrote back, and the state
\* the step returns is the state after the last stage.
C20_StagesSequential ==
    (network # None /\ Stepped) =>
        /\ [k \in DOMAIN LastStep.trace |-> LastStep.trace[k].label] = NetLabels
        /\ \A k \in DOMAIN LastStep.trace :
                LastStep.trace[k].state =
                    run_stage_intervened(Net, NetSpec[k], LastStep.raw_input,
                                         StateBefore(k), split(LastStep.key, k))
        /\ net_state = Some(LastStep.trace[Len(LastStep.trace)].state)

C20_Witness ==
    /\ network # None /\ Stepped
    /\ Len(LastStep.trace) = 6
    /\ net_state = Some(LastStep.trace[6].state)
    /\ \A k \in {2, 4, 5} : LastStep.trace[k].state # LastStep.trace[k - 1].state
\* the trajectory the caller holds: the state after init or after the steps
Trajectory == <<Get(net_state)>>

\* C21: evaluating NetworkOutputLoss on the trajectory of a network without
\* readout stage is a precondition failure: the state's output field is
\* absent and no loss is computed from a placeholder.
C21_OutputLossNeedsReadout ==
    (network # None /\ net_state # None /\ ~ReadoutConfigured) =>
        /\ Get(net_state).output = None
        /\ NetworkOutputLoss_term_raises(Trajectory)
(***************************************************************************)
(* Properties of CompositeLoss                                             *)
(***************************************************************************)
LossArgs == Get(loss_args)
Loss == Get(loss)
Constructed == loss_pc # "idle"

SuppliedTerms == [i \in DOMAIN LossArgs.terms.items |-> LossArgs.terms.items[i][2]]
WeightsOmitted == LossArgs.weights.kind = "None"

\* the numbers of terms and of weights supplied differ
CountsDiffer ==
    ~WeightsOmitted /\ Len(LossArgs.weights.items) # Len(LossArgs.terms.items)

\* the weights the terms of the loss must have when the supplied terms are
\* given the weights in given: the simple terms first, then the terms of
\* every composite term, each weight multiplied by the composite's
RECURSIVE NestedWeights(_, _)
NestedWeights(given, i) ==
    IF i > Len(SuppliedTerms) THEN <<>>
    ELSE (IF isinstance_CompositeLoss(SuppliedTerms[i])
          THEN [j \in DOMAIN SuppliedTerms[i].weights |->
                    given[i] * SuppliedTerms[i].weights[j][2]]
          ELSE <<>>) \o NestedWeights(given, i + 1)

SimpleWeights(given) ==
    LET simple == positions(LossArgs.terms, FALSE, 1)
    IN  [k \in DOMAIN simple |-> given[simple[k]]]

ExpectedWeights(given) == SimpleWeights(given) \o NestedWeights(given, 1)

\* C22: a CompositeLoss given numbers of terms and of weights that differ is
\* not constructed: the construction raises and yields no CompositeLoss; with
\* the weights omitted every supplied term has weight 1 (a simple term has
\* weight 1 in the loss, the terms of a composite term keep their weights).
C22_WeightCountChecked ==
    Constructed =>
        /\ CountsDiffer => (loss_pc = "raised" /\ loss = None)
        /\ (loss_pc = "returned" /\ WeightsOmitted) =>
                values(Loss.weights)
                    = ExpectedWeights([i \in DOMAIN SuppliedTerms |-> 1])

\* more weights than terms are supplied, the terms as a sequence
C22_Witness ==
    /\ loss_pc = "raised"
    /\ loss = None
    /\ LossArgs.terms.kind = "Sequence"
    /\ Len(LossArgs.terms.items) >= 1
    /\ Len(LossArgs.weights.items) > Len(LossArgs.terms.items)

SomeComposite == \E i \in DOMAIN SuppliedTerms : isinstance_CompositeLoss(SuppliedTerms[i])

\* the weight the caller gave to the i-th supplied term: 1 when the weights
\* are omitted, the weight under the term's key when terms and weights are
\* mappings over the same keys, the i-th weight otherwise
GivenWeight(i) ==
    IF WeightsOmitted THEN 1
    ELSE IF /\ LossArgs.terms.kind = "Mapping"
            /\ LossArgs.weights.kind = "Mapping"
            /\ Range(keys(LossArgs.terms.items)) = Range(keys(LossArgs.weights.items))
    THEN lookup(LossArgs.weights.items, LossArgs.terms.items[i][1])
    ELSE LossArgs.weights.items[i][2]

GivenWeights == [i \in DOMAIN SuppliedTerms |-> GivenWeight(i)]

\* the simple terms supplied, then the terms of every composite supplied
RECURSIVE NestedTerms(_)
NestedTerms(i) ==
    IF i > Len(SuppliedTerms) THEN <<>>
    ELSE (IF isinstance_CompositeLoss(SuppliedTerms[i])
          THEN values(SuppliedTerms[i].terms) ELSE <<>>) \o NestedTerms(i + 1)

ExpectedTerms ==
    LET simple == positions(LossArgs.terms, FALSE, 1)
    IN  [k \in DOMAIN simple |-> SuppliedTerms[simple[k]]] \o NestedTerms(1)

\* C30: a CompositeLoss built from terms that include CompositeLoss instances
\* holds simple terms only; every simple term supplied and every term of a
\* composite supplied appears once, none is dropped; a term of a composite
\* has its weight inside the composite multiplied by the weight given to the
\* composite; terms and weights have the same labels.
C30_NestedFlattened ==
    (loss_pc = "returned" /\ SomeComposite) =>
        /\ \A i \in DOMAIN Loss.terms : ~isinstance_CompositeLoss(Loss.terms[i][2])
        /\ values(Loss.terms) = ExpectedTerms
        /\ keys(Loss.terms) = keys(Loss.weights)
        /\ values(Loss.weights) = ExpectedWeights(GivenWeights)

(***************************************************************************)
(* Properties of the masks at construction                                 *)
(***************************************************************************)
Population == Get(Net.population_structure)

\* the weights the hidden layer applies to the stage input
HiddenInputWeight ==
    IF hasattr(Net.hidden, "weight_ih") THEN Net.hidden.weight_ih
    ELSE Net.hidden.weight

InputUnit(r) == UnitOfRow(r) \in Range(Population.input_indices)
ReadoutUnit(j) == (j - 1) \in Range(Population.readout_indices)

\* C23: right after the construction of a network with a population
\* structure, whatever the hidden type, the stored hidden input weights are
\* zero in the rows of the units outside input_indices and the stored readout
\* weights are zero in the columns of the units outside readout_indices.
C23_StoredWeightsMasked ==
    (network # None /\ Net.population_structure # None) =>
        /\ \A r \in DOMAIN HiddenInputWeight :
                ~InputUnit(r) =>
                    \A j \in DOMAIN HiddenInputWeight[r] : HiddenInputWeight[r][j] = 0
        /\ ReadoutConfigured =>
                \A i \in DOMAIN Get(Net.readout).linear.weight :
                    \A j \in DOMAIN Get(Net.readout).linear.weight[i] :
                        ~ReadoutUnit(j) => Get(Net.readout).linear.weight[i][j] = 0

\* the mask __init__ multiplies the hidden layer's input weights by
HiddenInputMask ==
    hidden_input_mask(Net.hidden.weight_ih, Net.hidden_size,
                      Len(Net.hidden.weight_ih[1]), Population.input_indices)

ThreeGateBlocks ==
    /\ hasattr(Net.hidden, "weight_ih")
    /\ Net.hidden_size > 0
    /\ Len(Net.hidden.weight_ih) = 3 * Net.hidden_size

\* C24: when the hidden layer's input weights stack three gate blocks
\* row-wise, the hidden input mask has 3 * hidden_size rows and row r is open
\* exactly when unit (r mod hidden_size) is in input_indices, so the three
\* gates of a unit are all open or all closed to the input, with and without
\* an encoder; the stored weights are zero exactly in the closed rows.
C24_GateMaskTiled ==
    (network # None /\ Net.population_structure # None /\ ThreeGateBlocks) =>
        /\ Len(HiddenInputMask) = 3 * Net.hidden_size
        /\ \A r \in DOMAIN HiddenInputMask : \A j \in DOMAIN HiddenInputMask[r] :
                HiddenInputMask[r][j] = IF InputUnit(r) THEN 1 ELSE 0
        /\ \A u \in 1..Net.hidden_size : \A g \in 1..2 :
                HiddenInputMask[u + g * Net.hidden_size] = HiddenInputMask[u]
        /\ \A r \in DOMAIN Net.hidden.weight_ih : \A j \in DOMAIN Net.hidden.weight_ih[r] :
                (Net.hidden.weight_ih[r][j] = 0) <=> ~InputUnit(r)

\* a GRU network behind an encoder, with a unit that receives input and a
\* unit that does not
C24_Witness ==
    /\ network # None /\ Net.population_structure # None /\ ThreeGateBlocks
    /\ EncoderConfigured
    /\ \E r \in DOMAIN HiddenInputMask : InputUnit(r)
    /\ \E r \in DOMAIN HiddenInputMask : ~InputUnit(r)

\* C25: with a population structure and a readout, the readout is a
\* MaskedLinear whose mask has out_size rows and hidden_size columns, and
\* entry (i, j) is 1 exactly when unit j is in readout_indices, in every row.
C25_ReadoutMask ==
    (network # None /\ Net.population_structure # None /\ ReadoutConfigured) =>
        /\ Get(Net.readout).cls = "MaskedLinear"
        /\ Len(Get(Net.readout).mask) = Get(Net.out_size)
        /\ \A i \in DOMAIN Get(Net.readout).mask :
            /\ Len(Get(Net.readout).mask[i]) = Net.hidden_size
            /\ \A j \in DOMAIN Get(Net.readout).mask[i] :
                    Get(Net.readout).mask[i][j] = IF ReadoutUnit(j) THEN 1 ELSE 0

\* a readout over a unit that is read out and a unit that is not
C25_Witness ==
    /\ network # None /\ Net.population_structure # None /\ ReadoutConfigured
    /\ \E j \in 1..Net.hidden_size : ReadoutUnit(j)
    /\ \E j \in 1..Net.hidden_size : ~ReadoutUnit(j)
    /\ Get(Net.readout).linear.weight # zeros2(Get(Net.out_size), Net.hidden_size)

(***************************************************************************)
(* Properties of the stages                                                *)
(***************************************************************************)
\* the hidden activities the noise stage is tried on
HiddenStates == Vectors(Net.hidden_size, StateVals)

\* C27: model_spec holds the hidden_noise stage exactly when hidden_noise_std
\* is not None: never when it is None, always when it is a number, 0
\* included; with a level of 0 the stage reads and writes state.hidden and
\* returns the hidden activity it was given.
C27_NoiseStagePresence ==
    network # None =>
        /\ HasStage("hidden_noise") <=> Net.hidden_noise_std # None
        /\ Net.hidden_noise_std = Some(0) =>
            /\ StageOf("hidden_noise").callable = "_add_hidden_noise"
            /\ StageOf("hidden_noise").where_input = "state.hidden"
            /\ StageOf("hidden_noise").where_state = "hidden"
            /\ \A state \in HiddenStates : \A key \in Keys :
                    add_hidden_noise(Net, state, state, key) = state

\* a network with noise level 0, and a hidden activity and a key for which
\* noise of level 1 would change the activity
C27_Witness ==
    /\ network # None
    /\ Net.hidden_noise_std = Some(0)
    /\ HasStage("hidden_noise")
    /\ \E state \in HiddenStates : \E key \in Keys :
        /\ \E i \in DOMAIN state : state[i] # 0
        /\ add_hidden_noise([Net EXCEPT !.hidden_noise_std = Some(1)],
                            state, state, key) # state

StateFields == {"input", "hidden", "output", "encoding"}

\* the state slot each stage is to replace
Slot(label) ==
    CASE label = "input" -> "input"
      [] label = "encoder" -> "encoding"
      [] label \in {"hidden", "hidden_nonlinearity", "hidden_noise"} -> "hidden"
      [] label \in {"readout", "out_nonlinearity"} -> "output"

\* C28: every stage's state selector names the slot of its label (input:
\* state.input; encoder: state.encoding; hidden, hidden_nonlinearity and
\* hidden_noise: state.hidden; readout and out_nonlinearity: state.output),
\* and a stage's write-back replaces that slot only: every other field of
\* the state handed to the next stage is as the stage found it.  The state
\* given to the step is not modified: a step that raises leaves the caller
\* with the state it gave.
C28_WriteBackFrame ==
    (network # None /\ net_last # None) =>
        /\ \A k \in DOMAIN NetSpec : NetSpec[k].where_state = Slot(NetSpec[k].label)
        /\ \A k \in DOMAIN LastStep.trace :
                Net.intervenors[LastStep.trace[k].label] = <<>> =>
                    \A f \in StateFields \ {Slot(LastStep.trace[k].label)} :
                        state_field(f, LastStep.trace[k].state)
                            = state_field(f, StateBefore(k))
        /\ LastStep.raised => net_state = Some(LastStep.state_in)

\* a step of six stages without hooks from a state with non-zero hidden
\* activity and output, in which the input, hidden and readout stages each
\* changed their slot
C28_Witness ==
    /\ network # None /\ Stepped /\ NoHooksRegistered
    /\ Len(LastStep.trace) = 6
    /\ \E i \in DOMAIN LastStep.state_in.hidden : LastStep.state_in.hidden[i] # 0
    /\ \E i \in DOMAIN Get(LastStep.state_in.output) : Get(LastStep.state_in.output)[i] # 0
    /\ LastStep.trace[1].state.input # LastStep.state_in.input
    /\ LastStep.trace[2].state.hidden # LastStep.trace[1].state.hidden
    /\ LastStep.trace[5].state.output # LastStep.trace[4].state.output

\* C29: a network constructed with out_size omitted has every declared
\* field assigned, out_nonlinearity included, so that the out_nonlinearity
\* stage of its model_spec can be built and run.
C29_OutNonlinearityAssigned ==
    (network # None /\ ~ReadoutConfigured) =>
        /\ Net.out_nonlinearity # None
        /\ \A raw_input \in RawInputs(Net.input_size) :
                ~stage_raises(Net, StageOf("out_nonlinearity"), raw_input, init(Net))
====
